---- MODULE Spec2Model ----
(***************************************************************************)
(* Soda Business Manager: the ledger of flavors, products, stock batches,  *)
(* customers, sales, investments, users and activity logs, as the two     *)
(* Streamlit scripts implement it.                                         *)
(*                                                                         *)
(*   src/app.py  PostgreSQL: ONE connection, cached by st.cache_resource   *)
(*               and shared by the script runs of every browser session;   *)
(*               foreign keys are enforced.                                *)
(*   src/App.py  SQLite: each script run opens its own connection; the     *)
(*               foreign_keys pragma is never switched on.                 *)
(*                                                                         *)
(* A browser session runs the script top to bottom on every interaction,   *)
(* each run in its own thread, so the runs of two sessions interleave at   *)
(* the granularity of the database statements.  Money is FLOAT in the      *)
(* schema; the model uses integers, so rounding is out of its reach.       *)
(* Columns that no handler reads back (dates, created_by, phone, ...) are  *)
(* left out of the rows.                                                   *)
(***************************************************************************)
EXTENDS Integers, FiniteSets, Sequences, TLC

\* ------------------------------------------------------------------ bounds
\* Number of script runs that write to the database, over the whole behaviour.
MaxRuns == 2
\* Largest quantity / stock figure typed into a number_input.
MaxQty == 2

\* ------------------------------------------------------------ input values
Sessions == {1, 2}
Variants == {"pg", "sqlite"}
\* Text typed into a name field, before .strip().
NameInputs == {"Cola", " Cola", " "}
\* <<cost price, selling price>> typed into the add_product and edit_product forms.
PriceInputs == {<<1, 2>>, <<2, 3>>, <<-1, -1>>}
\* Amounts typed into the invest form.
AmountInputs == {0, 2}
\* Integers typed into a quantity or stock field (the widget decides which pass).
RawQty == -1 .. MaxQty
Usernames == {"admin", "bob"}
Passwords == {"admin123", "abc"}

NoUser == [id |-> 0, username |-> "", role |-> ""]
\* sentinel of the customer selectbox, "add_new"
AddNew == 0

VARIABLES
    variant,      \* which of the two scripts is deployed
    committed,    \* the durable database: table name -> set of rows
    work,         \* the database as seen through the open transaction
    owner,        \* sqlite: the session whose connection holds the write lock, or 0
    aborted,      \* pg: the shared connection's transaction is in the failed state
    seq,          \* last value handed out by each table's id sequence
    lastval,      \* pg: LASTVAL() of the shared connection
    user,         \* st.session_state.user of each session
    pc,           \* where each session's current script run stands
    loc,          \* the locals of each session's current script run
    result,       \* what the script run that ended last reported
    initial,      \* history: the stock each product was created with
    shown,        \* the figures of the report page rendered last
    runs          \* number of writing runs started so far

vars == <<variant, committed, work, owner, aborted, seq, lastval, user, pc, loc,
          result, initial, shown, runs>>

\* The eight tables of the schema, and "effects": a history table that is
\* written, committed and rolled back with them.  It records, per form
\* submission (id = the submission's number), which of its statements took
\* effect: "addition" and "increment" for Add Stock, "customer", "sale" and
\* "decrement" for Record Sale.
Tables == {"flavors", "products", "stock_additions", "customers", "sales",
           "investments", "users", "activity_logs", "effects"}

EmptyDb == [t \in Tables |-> {}]

NoLoc == [pid |-> 0, cost_price |-> 0, selling_price |-> 0, stock |-> 0,
          flavor_name |-> "", qty |-> 0, batch_cost |-> 0, cust |-> 0,
          name |-> "", customer_id |-> 0, row |-> 0, call |-> 0]

\* st.metric / st.dataframe figures of a report page; page "" before any report
NoReport == [page |-> "", total_revenue |-> 0, cost_used |-> 0,
             total_investment |-> 0, remaining_investment |-> 0, profit |-> 0,
             monthly_revenue |-> 0, monthly_cost |-> 0, monthly_profit |-> 0,
             info |-> ""]

\* ------------------------------------------------------------- pure helpers
\* str.strip() on the strings of NameInputs
strip(s) == CASE s = " Cola" -> "Cola"
              [] s = " " -> ""
              [] OTHER -> s

\* a length that counts one character too many
len_plus_one(p) == CASE p = "abc" -> 4
                     [] p = "admin123" -> 9
                     [] OTHER -> 1

\* len(password)
len(p) == CASE p = "abc" -> 3
            [] p = "admin123" -> 8
            [] OTHER -> 0

\* hashlib.sha256(password.encode()).hexdigest(): one digest per password
hash_password(p) == <<"sha256", p>>

RECURSIVE SumOf(_, _)
\* SUM(<field>) over a set of rows
SumOf(rows, f) ==
    IF rows = {} THEN 0
    ELSE LET r == CHOOSE x \in rows : TRUE
         IN r[f] + SumOf(rows \ {r}, f)

\* st.number_input(min_value=lo, max_value=hi): the widget hands the script a
\* typed value only if it lies in the range; anything else is not submitted.
number_input(raw, lo, hi) == lo <= raw /\ raw <= hi
\* the widget with its min_value one too low
number_input_min_low(raw, lo) == lo - 1 <= raw
\* the same widget given a min_value only
number_input_min(raw, lo) == lo <= raw

\* rows of a table with a given id
ById(rows, i) == {r \in rows : r.id = i}
Has(rows, i) == ById(rows, i) # {}
Row(rows, i) == CHOOSE r \in rows : r.id = i

\* --------------------------------------------------- connection mechanics
user_pages == {"Dashboard", "Record Sale", "Customers"}

\* The page list offered to a session: app.py filters it by role, App.py does not.
PageAllowed(s, page) ==
    /\ user[s] # NoUser
    /\ \/ variant = "sqlite"
       \/ user[s].role = "admin"
       \/ page \in user_pages

\* A script run can begin: the session is between runs, and on the shared
\* PostgreSQL connection create_tables() (its first statement) does not raise.
CanStart(s) == pc[s] = "idle" /\ (variant = "pg" => ~aborted)

\* What a run reads right after create_tables(): on pg the shared transaction,
\* on sqlite the committed database through its fresh connection.
Base == IF variant = "pg" THEN work ELSE committed

\* What session s reads in the middle of its run.
View(s) == IF variant = "pg" \/ owner = s THEN work ELSE committed

\* sqlite: a connection may write when no other connection holds the write lock
\* (a writer that finds it held waits in the busy handler).
CanWrite(s) == variant = "sqlite" => owner \in {0, s}

Insert(db, t, row) == [db EXCEPT ![t] = @ \cup {row}]
\* history: submission n's statement eff took effect
Effect(db, n, eff) == Insert(db, "effects", [id |-> n, eff |-> eff])
EffectsOf(db, n) == {e.eff : e \in {x \in db["effects"] : x.id = n}}
Delete(db, t, i) == [db EXCEPT ![t] = {r \in @ : r.id # i}]

\* The run executed its statements, reached db and called conn.commit().
Committed(db) ==
    /\ committed' = db
    /\ work' = db
    /\ owner' = 0
    /\ aborted' = FALSE

\* The run ended without a statement of its own; create_tables() committed
\* whatever the shared pg connection had pending.
NothingWritten ==
    /\ committed' = Base
    /\ UNCHANGED <<work, owner, aborted>>

\* pg: a statement of a run that began in this step raised; the transaction is
\* left in the failed state (no handler but create_user rolls back).  The
\* statements pending on it are lost at the next commit() or rollback().
FailedAtStart ==
    /\ committed' = work
    /\ work' = work
    /\ aborted' = TRUE
    /\ UNCHANGED owner

\* A statement in the middle of a run leaves db pending on the connection.
Staged(s, db) ==
    /\ work' = db
    /\ owner' = IF variant = "sqlite" THEN s ELSE 0
    /\ UNCHANGED <<committed, aborted>>

\* pg: a statement in the middle of a run raised.
FailedMidRun ==
    /\ aborted' = TRUE
    /\ work' = committed
    /\ UNCHANGED <<committed, owner>>

\* log_activity(action): INSERT INTO activity_logs ... ; conn.commit()
LogRow(s, action) == [id |-> seq["activity_logs"] + 1, username |-> user[s].username,
                      action |-> action]
WithLog(s, db, action) ==
    IF user[s] = NoUser THEN db ELSE Insert(db, "activity_logs", LogRow(s, action))
LogSeq(s, sq) ==
    IF user[s] = NoUser THEN sq ELSE [sq EXCEPT !["activity_logs"] = @ + 1]

Bump(sq, t) == [sq EXCEPT ![t] = @ + 1]

\* ------------------------------------------------------------------- Init
\* The script starts over whatever database earlier runs left behind: a fresh
\* installation, or one in which the admin has added a flavor and a product
\* (FirstRun, Login, AddFlavor and AddProduct lead from the first to the second).
SeedDb ==
    [EmptyDb EXCEPT
        !["users"] = {[id |-> 1, username |-> "admin",
                       password_hash |-> hash_password("admin123"), role |-> "admin"]},
        !["flavors"] = {[id |-> 1, flavor_name |-> "Cola"]},
        !["products"] = {[id |-> 1, flavor_id |-> 1, cost_price |-> 1,
                          selling_price |-> 2, stock |-> 1]},
        !["activity_logs"] = {[id |-> 1, username |-> "admin",
                               action |-> "Added product"]}]

SeedSeq == [t \in Tables |-> IF SeedDb[t] = {} THEN 0 ELSE 1]

Init ==
    /\ variant \in Variants
    /\ \E seeded \in BOOLEAN :
          /\ committed = IF seeded THEN SeedDb ELSE EmptyDb
          /\ work = committed
          /\ seq = IF seeded THEN SeedSeq ELSE [t \in Tables |-> 0]
          /\ initial = IF seeded THEN <<1>> ELSE <<>>
    /\ owner = 0
    /\ aborted = FALSE
    /\ lastval = 0
    /\ user = [s \in Sessions |-> NoUser]
    /\ pc = [s \in Sessions |-> "idle"]
    /\ loc = [s \in Sessions |-> NoLoc]
    /\ result = ""
    /\ shown = NoReport
    /\ runs = 0

\* ------------------------------------------------------------------- auth
\* the row of a create_user that gives every account the admin role
UserRowAdmin(u, p, role) == [id |-> seq["users"] + 1, username |-> u,
                             password_hash |-> hash_password(p), role |-> "admin"]

\* create_user(username, password, role): INSERT INTO users; commit
UserRow(u, p, role) == [id |-> seq["users"] + 1, username |-> u,
                        password_hash |-> hash_password(p), role |-> role]

\* First script run on an empty users table: create_user("admin","admin123","admin")
FirstRun(s) ==
    /\ CanStart(s)
    /\ Base["users"] = {}
    /\ Committed(Insert(Base, "users", UserRow("admin", "admin123", "admin")))
    /\ seq' = Bump(seq, "users")
    /\ lastval' = IF variant = "pg" THEN seq["users"] + 1 ELSE lastval
    /\ UNCHANGED <<variant, shown, user, pc, loc, result, initial, runs>>

\* the lookup by username alone
verify_user_any_password(db, u, p) == {r \in db["users"] : r.username = u}

\* verify_user(username, password): the (id, role) of the matching row, if any
verify_user(db, u, p) ==
    {r \in db["users"] : r.username = u /\ r.password_hash = hash_password(p)}

Login(s, u, p) ==
    /\ CanStart(s)
    /\ Base["users"] # {}
    /\ user[s] = NoUser
    /\ LET found == verify_user(Base, u, p)
       IN IF found # {}
          THEN LET r == CHOOSE x \in found : TRUE
               IN /\ user' = [user EXCEPT ![s] =
                                [id |-> r.id, username |-> u, role |-> r.role]]
                  /\ result' = "ok"
          ELSE /\ result' = "Invalid credentials"
               /\ UNCHANGED user
    /\ NothingWritten
    /\ UNCHANGED <<variant, shown, seq, lastval, pc, loc, initial, runs>>

Register(s, u, p) ==
    /\ CanStart(s)
    /\ Base["users"] # {}
    /\ user[s] = NoUser
    /\ runs < MaxRuns
    /\ runs' = runs + 1
    /\ IF len(p) < 4
       THEN /\ result' = "Password too short"
            /\ NothingWritten
            /\ UNCHANGED <<seq, lastval>>
       ELSE IF \E r \in Base["users"] : r.username = u
       THEN \* UniqueViolation / IntegrityError: pg rolls the connection back
            /\ result' = "Username already exists"
            /\ IF variant = "pg"
               THEN /\ committed' = work
                    /\ work' = work
                    /\ seq' = Bump(seq, "users")
                    /\ lastval' = seq["users"] + 1
                    /\ UNCHANGED <<owner, aborted>>
               ELSE /\ NothingWritten
                    /\ UNCHANGED <<seq, lastval>>
       ELSE /\ CanWrite(s)
            /\ result' = "ok"
            /\ Committed(Insert(Base, "users", UserRow(u, p, "staff")))
            /\ seq' = Bump(seq, "users")
            /\ lastval' = IF variant = "pg" THEN seq["users"] + 1 ELSE lastval
    /\ UNCHANGED <<variant, shown, user, pc, loc, initial>>

\* Logout button.  app.py: session_state.logged_in = False, user = None.
\* App.py: clear_session() is defined nowhere, so the handler raises NameError
\* before it reaches session_state.user = None.
Logout(s) ==
    /\ CanStart(s)
    /\ user[s] # NoUser
    /\ IF variant = "pg"
       THEN /\ user' = [user EXCEPT ![s] = NoUser]
            /\ result' = "ok"
       ELSE /\ result' = "error"
            /\ UNCHANGED user
    /\ NothingWritten
    /\ UNCHANGED <<variant, shown, seq, lastval, pc, loc, initial, runs>>

\* The browser of seat s connects anew: Streamlit hands the script an empty
\* session_state, and the top of the script sets session_state.user = None.
\* App.py writes auth_session.txt at login and on every page run, but reads it
\* in no run: its load_session() call is guarded by "user" not in
\* st.session_state, which the top of the script has made false by then.
\* app.py keeps no session record.
Reconnect(s) ==
    /\ CanStart(s)
    /\ user' = [user EXCEPT ![s] = NoUser]
    /\ NothingWritten
    /\ UNCHANGED <<variant, shown, seq, lastval, pc, loc, result, initial, runs>>

\* A form submission that writes: counted against the bound of the model.
Submit(s, page) ==
    /\ CanStart(s)
    /\ Base["users"] # {}
    /\ PageAllowed(s, page)
    /\ runs < MaxRuns
    /\ runs' = runs + 1

Say(s, msg) == result' = msg

\* ---------------------------------------------------------------- flavors
\* the add_flavor form over a flavors table without UNIQUE(flavor_name)
AddFlavorNoUnique(s, raw) ==
    /\ Submit(s, "Flavors")
    /\ IF strip(raw) = ""
       THEN /\ Say(s, "Enter flavor name")
            /\ NothingWritten
            /\ UNCHANGED <<seq, lastval>>
       ELSE /\ CanWrite(s)
            /\ Say(s, "ok")
            /\ Committed(Insert(Base, "flavors",
                   [id |-> seq["flavors"] + 1, flavor_name |-> strip(raw)]))
            /\ seq' = Bump(seq, "flavors")
            /\ lastval' = IF variant = "pg" THEN seq["flavors"] + 1 ELSE lastval
    /\ UNCHANGED <<variant, shown, user, pc, loc, initial>>

\* add_flavor form: INSERT INTO flavors(flavor_name); commit
AddFlavor(s, raw) ==
    /\ Submit(s, "Flavors")
    /\ IF strip(raw) = ""
       THEN /\ Say(s, "Enter flavor name")
            /\ NothingWritten
            /\ UNCHANGED <<seq, lastval>>
       ELSE IF \E f \in Base["flavors"] : f.flavor_name = strip(raw)
       THEN \* UNIQUE(flavor_name): caught, reported, never rolled back
            /\ Say(s, "Flavor already exists")
            /\ IF variant = "pg"
               THEN /\ FailedAtStart
                    /\ seq' = Bump(seq, "flavors")
                    /\ lastval' = seq["flavors"] + 1
               ELSE /\ NothingWritten
                    /\ UNCHANGED <<seq, lastval>>
       ELSE /\ CanWrite(s)
            /\ Say(s, "ok")
            /\ Committed(Insert(Base, "flavors",
                   [id |-> seq["flavors"] + 1, flavor_name |-> strip(raw)]))
            /\ seq' = Bump(seq, "flavors")
            /\ lastval' = IF variant = "pg" THEN seq["flavors"] + 1 ELSE lastval
    /\ UNCHANGED <<variant, shown, user, pc, loc, initial>>

\* delete button of a flavor row: DELETE FROM flavors WHERE id; commit
DeleteFlavor(s, fid) ==
    /\ Submit(s, "Flavors")
    /\ Has(Base["flavors"], fid)
    /\ IF variant = "pg" /\ \E p \in Base["products"] : p.flavor_id = fid
       THEN \* products.flavor_id REFERENCES flavors(id): ForeignKeyViolation, uncaught
            /\ Say(s, "error")
            /\ FailedAtStart
       ELSE /\ CanWrite(s)
            /\ Say(s, "ok")
            /\ Committed(Delete(Base, "flavors", fid))
    /\ UNCHANGED <<variant, shown, seq, lastval, user, pc, loc, initial>>

\* edit_flavor form: UPDATE flavors SET flavor_name WHERE id; commit
UpdateFlavor(s, fid, raw) ==
    /\ Submit(s, "Flavors")
    /\ Has(Base["flavors"], fid)
    /\ IF \E f \in Base["flavors"] : f.id # fid /\ f.flavor_name = strip(raw)
       THEN \* UNIQUE(flavor_name): uncaught
            /\ Say(s, "error")
            /\ IF variant = "pg" THEN FailedAtStart ELSE NothingWritten
       ELSE /\ CanWrite(s)
            /\ Say(s, "ok")
            /\ Committed([Base EXCEPT !["flavors"] =
                   {IF f.id = fid THEN [f EXCEPT !.flavor_name = strip(raw)] ELSE f
                      : f \in @}])
    /\ UNCHANGED <<variant, shown, seq, lastval, user, pc, loc, initial>>

\* --------------------------------------------------------------- products
\* add_product form: INSERT INTO products; commit; log_activity
AddProduct(s, fid, cost, price, rawstock) ==
    /\ Submit(s, "Products")
    /\ Has(Base["flavors"], fid)
    /\ number_input_min(cost, 0)
    /\ number_input_min(price, 0)
    /\ number_input_min(rawstock, 0)
    /\ CanWrite(s)
    /\ LET pid == seq["products"] + 1
           row == [id |-> pid, flavor_id |-> fid, cost_price |-> cost,
                   selling_price |-> price, stock |-> rawstock]
       IN /\ Committed(WithLog(s, Insert(Base, "products", row), "Added product"))
          /\ initial' = [i \in DOMAIN initial \cup {pid} |->
                           IF i = pid THEN rawstock ELSE initial[i]]
          /\ lastval' = IF variant = "pg" THEN seq["activity_logs"] + 1 ELSE lastval
    /\ seq' = LogSeq(s, Bump(seq, "products"))
    /\ Say(s, "ok")
    /\ UNCHANGED <<variant, shown, user, pc, loc>>

\* the delete with ON DELETE CASCADE on the tables that reference products
DeleteProductCascade(s, pid) ==
    /\ Submit(s, "Products")
    /\ Base["flavors"] # {}
    /\ Has(Base["products"], pid)
    /\ CanWrite(s)
    /\ Say(s, "ok")
    /\ Committed([Delete(Base, "products", pid) EXCEPT
          !["stock_additions"] = {r \in @ : r.product_id # pid},
          !["sales"] = {r \in @ : r.product_id # pid}])
    /\ UNCHANGED <<variant, shown, seq, lastval, user, pc, loc, initial>>

\* delete button of a product row: DELETE FROM products WHERE id; commit
DeleteProduct(s, pid) ==
    /\ Submit(s, "Products")
    /\ Base["flavors"] # {}
    /\ Has(Base["products"], pid)
    /\ IF variant = "pg" /\ \E r \in Base["stock_additions"] \cup Base["sales"] :
                               r.product_id = pid
       THEN \* REFERENCES products(id): ForeignKeyViolation, uncaught
            /\ Say(s, "error")
            /\ FailedAtStart
       ELSE /\ CanWrite(s)
            /\ Say(s, "ok")
            /\ Committed(Delete(Base, "products", pid))
    /\ UNCHANGED <<variant, shown, seq, lastval, user, pc, loc, initial>>

\* edit_product form: UPDATE products SET flavor_id, cost_price, selling_price,
\* stock WHERE id; commit; log_activity.  None of its inputs has a min_value.
UpdateProduct(s, pid, fid, cost, price, rawstock) ==
    /\ Submit(s, "Products")
    /\ Has(Base["flavors"], fid)
    /\ Has(Base["products"], pid)
    /\ CanWrite(s)
    /\ Committed(WithLog(s,
          [Base EXCEPT !["products"] =
              {IF p.id = pid
                 THEN [p EXCEPT !.flavor_id = fid, !.cost_price = cost,
                                !.selling_price = price, !.stock = rawstock]
                 ELSE p : p \in @}],
          "Updated product"))
    /\ seq' = LogSeq(s, seq)
    /\ lastval' = IF variant = "pg" THEN seq["activity_logs"] + 1 ELSE lastval
    /\ Say(s, "ok")
    /\ UNCHANGED <<variant, shown, user, pc, loc, initial>>

\* ------------------------------------------------------------ investments
\* invest form: INSERT INTO investments; commit
AddInvestment(s, amt) ==
    /\ Submit(s, "Company Investment")
    /\ number_input_min(amt, 0)
    /\ CanWrite(s)
    /\ Committed(Insert(Base, "investments",
                        [id |-> seq["investments"] + 1, amount |-> amt]))
    /\ seq' = Bump(seq, "investments")
    /\ lastval' = IF variant = "pg" THEN seq["investments"] + 1 ELSE lastval
    /\ Say(s, "ok")
    /\ UNCHANGED <<variant, shown, user, pc, loc, initial>>

\* -------------------------------------------------------------- customers
\* add_customer form: INSERT INTO customers; commit; log_activity
AddCustomer(s, raw) ==
    /\ Submit(s, "Customers")
    /\ IF strip(raw) = ""
       THEN /\ Say(s, "Name is required")
            /\ NothingWritten
            /\ UNCHANGED <<seq, lastval>>
       ELSE /\ CanWrite(s)
            /\ Say(s, "ok")
            /\ Committed(WithLog(s, Insert(Base, "customers",
                   [id |-> seq["customers"] + 1, name |-> strip(raw)]),
                   "Added customer"))
            /\ seq' = LogSeq(s, Bump(seq, "customers"))
            /\ lastval' = IF variant = "pg" THEN seq["activity_logs"] + 1 ELSE lastval
    /\ UNCHANGED <<variant, shown, user, pc, loc, initial>>

\* edit_customer form: UPDATE customers SET name, ... WHERE id; commit; log_activity
UpdateCustomer(s, cid, raw) ==
    /\ Submit(s, "Customers")
    /\ Has(Base["customers"], cid)
    /\ CanWrite(s)
    /\ Committed(WithLog(s,
          [Base EXCEPT !["customers"] =
              {IF c.id = cid THEN [c EXCEPT !.name = strip(raw)] ELSE c : c \in @}],
          "Updated customer"))
    /\ seq' = LogSeq(s, seq)
    /\ lastval' = IF variant = "pg" THEN seq["activity_logs"] + 1 ELSE lastval
    /\ Say(s, "ok")
    /\ UNCHANGED <<variant, shown, user, pc, loc, initial>>

\* delete button of a customer row (app.py shows it to admins only):
\* DELETE FROM customers WHERE id; commit
DeleteCustomer(s, cid) ==
    /\ Submit(s, "Customers")
    /\ variant = "pg" => user[s].role = "admin"
    /\ Has(Base["customers"], cid)
    /\ IF variant = "pg" /\ \E r \in Base["sales"] : r.customer_id = cid
       THEN \* sales.customer_id REFERENCES customers(id): ForeignKeyViolation
            /\ Say(s, "error")
            /\ FailedAtStart
       ELSE /\ CanWrite(s)
            /\ Say(s, "ok")
            /\ Committed(Delete(Base, "customers", cid))
    /\ UNCHANGED <<variant, shown, seq, lastval, user, pc, loc, initial>>

\* -------------------------------------------------------------- add stock
\* UPDATE products SET stock = stock + delta WHERE id = pid (no row may match)
AddToStock(db, pid, delta, n, eff) ==
    IF Has(db["products"], pid)
    THEN Effect([db EXCEPT !["products"] =
                    {IF p.id = pid THEN [p EXCEPT !.stock = @ + delta] ELSE p : p \in @}],
                n, eff)
    ELSE db

\* A run of a multi-statement handler ends (an uncaught exception, or its end).
EndRun(s, msg) ==
    /\ pc' = [pc EXCEPT ![s] = "idle"]
    /\ loc' = [loc EXCEPT ![s] = NoLoc]
    /\ Say(s, msg)

Goto(s, label) == pc' = [pc EXCEPT ![s] = label]

\* pg: a statement on the failed transaction raises InFailedSqlTransaction
Poisoned == variant = "pg" /\ aborted

\* Add Stock page up to the submit: get_products(), the product selectbox, the
\* quantity number_input(min_value=1), batch_cost = qty * cost_price of the
\* selected row as read by this run.
AddStockLoad(s, pid, raw) ==
    /\ Submit(s, "Add Stock")
    /\ Has(Base["products"], pid)
    /\ NothingWritten
    /\ IF number_input_min(raw, 1)
       THEN LET sel == Row(Base["products"], pid)
            IN /\ loc' = [loc EXCEPT ![s] =
                    [NoLoc EXCEPT !.pid = pid, !.cost_price = sel.cost_price,
                                  !.qty = raw, !.batch_cost = raw * sel.cost_price,
                                  !.call = runs + 1]]
               /\ Goto(s, "as_insert")
               /\ UNCHANGED result
       ELSE /\ Say(s, "Add Stock: quantity rejected")
            /\ UNCHANGED <<pc, loc>>
    /\ UNCHANGED <<variant, shown, seq, lastval, user, initial>>

\* INSERT INTO stock_additions(product_id, quantity, batch_cost)
AddStockInsert(s) ==
    /\ pc[s] = "as_insert"
    /\ IF Poisoned \/ (variant = "pg" /\ ~Has(View(s)["products"], loc[s].pid))
       THEN \* InFailedSqlTransaction, or REFERENCES products(id) violated
            /\ FailedMidRun
            /\ EndRun(s, "error")
            /\ UNCHANGED <<seq, lastval>>
       ELSE /\ CanWrite(s)
            /\ Staged(s, Effect(Insert(View(s), "stock_additions",
                   [id |-> seq["stock_additions"] + 1, product_id |-> loc[s].pid,
                    quantity |-> loc[s].qty, batch_cost |-> loc[s].batch_cost]),
                   loc[s].call, "addition"))
            /\ seq' = Bump(seq, "stock_additions")
            /\ lastval' = IF variant = "pg" THEN seq["stock_additions"] + 1 ELSE lastval
            /\ loc' = [loc EXCEPT ![s].row = seq["stock_additions"] + 1]
            /\ Goto(s, "as_update")
            /\ UNCHANGED result
    /\ UNCHANGED <<variant, shown, user, initial, runs>>

\* UPDATE products SET stock = stock + qty WHERE id = pid
AddStockUpdate(s) ==
    /\ pc[s] = "as_update"
    /\ IF Poisoned
       THEN /\ FailedMidRun
            /\ EndRun(s, "error")
       ELSE /\ CanWrite(s)
            /\ Staged(s, AddToStock(View(s), loc[s].pid, loc[s].qty,
                                     loc[s].call, "increment"))
            /\ Goto(s, "as_commit")
            /\ UNCHANGED <<loc, result>>
    /\ UNCHANGED <<variant, shown, seq, lastval, user, initial, runs>>

\* conn.commit(); log_activity("Added <qty> stock to <flavor>"); st.success.
\* Nothing but the script's own code runs between the commit and the INSERT
\* of log_activity, whose commit ends the run.
AddStockCommit(s) ==
    /\ pc[s] = "as_commit"
    /\ CanWrite(s)
    /\ Committed(WithLog(s, IF Poisoned THEN committed ELSE View(s), "Added stock"))
    /\ seq' = LogSeq(s, seq)
    /\ lastval' = IF variant = "pg" THEN seq["activity_logs"] + 1 ELSE lastval
    /\ EndRun(s, "ok")
    /\ UNCHANGED <<variant, shown, user, initial, runs>>

\* ------------------------------------------------------------ record sale
\* Record Sale page up to the submit: get_products(), get_customers(), the two
\* selectboxes, the customer name field, the quantity
\* number_input(min_value=1, max_value=sel["stock"]) and the validations that
\* precede the first statement.
RecordSaleLoad(s, pid, cust, rawname, raw) ==
    /\ Submit(s, "Record Sale")
    /\ Has(Base["products"], pid)
    /\ cust = AddNew \/ Has(Base["customers"], cust)
    /\ NothingWritten
    /\ LET sel == Row(Base["products"], pid)
       IN IF sel.stock <= 0
          THEN /\ Say(s, "Selected product is out of stock.")
               /\ UNCHANGED <<pc, loc>>
          ELSE IF ~number_input(raw, 1, sel.stock)
          THEN /\ Say(s, "Record Sale: quantity rejected")
               /\ UNCHANGED <<pc, loc>>
          ELSE IF raw > sel.stock
          THEN /\ Say(s, "Not enough stock.")
               /\ UNCHANGED <<pc, loc>>
          ELSE IF cust = AddNew /\ strip(rawname) = ""
          THEN /\ Say(s, "Customer name is required.")
               /\ UNCHANGED <<pc, loc>>
          ELSE /\ loc' = [loc EXCEPT ![s] =
                    [NoLoc EXCEPT !.pid = pid, !.selling_price = sel.selling_price,
                                  !.stock = sel.stock, !.qty = raw, !.cust = cust,
                                  !.name = strip(rawname), !.call = runs + 1]]
               /\ Goto(s, "rs_cust")
               /\ UNCHANGED result
    /\ UNCHANGED <<variant, shown, seq, lastval, user, initial>>

\* UPDATE customers SET name = ... WHERE id = cid (no row may match)
UpdateCustomerRow(db, cid, name, n) ==
    IF Has(db["customers"], cid)
    THEN Effect([db EXCEPT !["customers"] =
                    {IF c.id = cid THEN [c EXCEPT !.name = name] ELSE c : c \in @}],
                n, "customer")
    ELSE db

\* new customer: INSERT INTO customers; commit (then LASTVAL() / c.lastrowid)
\* existing customer: UPDATE customers SET name, ... WHERE id; commit
RecordSaleCustomer(s) ==
    /\ pc[s] = "rs_cust"
    /\ IF Poisoned
       THEN /\ FailedMidRun
            /\ EndRun(s, "error")
            /\ UNCHANGED <<seq, lastval>>
       ELSE /\ CanWrite(s)
            /\ UNCHANGED result
            /\ IF loc[s].cust = AddNew
               THEN LET cid == seq["customers"] + 1
                    IN /\ Committed(Effect(Insert(View(s), "customers",
                              [id |-> cid, name |-> loc[s].name]),
                              loc[s].call, "customer"))
                       /\ seq' = Bump(seq, "customers")
                       /\ IF variant = "pg"
                          THEN /\ lastval' = cid
                               /\ Goto(s, "rs_lastval")
                               /\ loc' = [loc EXCEPT ![s].row = cid]
                          ELSE \* customer_id = c.lastrowid
                               /\ loc' = [loc EXCEPT ![s].customer_id = cid,
                                                     ![s].row = cid]
                               /\ Goto(s, "rs_sale")
                               /\ UNCHANGED lastval
               ELSE /\ Committed(UpdateCustomerRow(View(s), loc[s].cust, loc[s].name,
                                                  loc[s].call))
                    /\ loc' = [loc EXCEPT ![s].customer_id = loc[s].cust]
                    /\ Goto(s, "rs_sale")
                    /\ UNCHANGED <<seq, lastval>>
    /\ UNCHANGED <<variant, shown, user, initial, runs>>

\* app.py: c.execute("SELECT LASTVAL()"); customer_id = c.fetchone()[0]
RecordSaleLastval(s) ==
    /\ pc[s] = "rs_lastval"
    /\ IF Poisoned
       THEN /\ FailedMidRun
            /\ EndRun(s, "error")
       ELSE /\ loc' = [loc EXCEPT ![s].customer_id = lastval]
            /\ Goto(s, "rs_sale")
            /\ UNCHANGED <<committed, work, owner, aborted, result>>
    /\ UNCHANGED <<variant, shown, seq, lastval, user, initial, runs>>

\* revenue = qty * sel["selling_price"]; INSERT INTO sales
RecordSaleInsert(s) ==
    /\ pc[s] = "rs_sale"
    /\ IF \/ Poisoned
          \/ /\ variant = "pg"
             /\ \/ ~Has(View(s)["products"], loc[s].pid)
                \/ ~Has(View(s)["customers"], loc[s].customer_id)
       THEN \* InFailedSqlTransaction, or a REFERENCES constraint violated
            /\ FailedMidRun
            /\ EndRun(s, "error")
            /\ UNCHANGED <<seq, lastval>>
       ELSE /\ CanWrite(s)
            /\ Staged(s, Effect(Insert(View(s), "sales",
                   [id |-> seq["sales"] + 1, product_id |-> loc[s].pid,
                    quantity |-> loc[s].qty,
                    revenue |-> loc[s].qty * loc[s].selling_price,
                    customer_id |-> loc[s].customer_id]),
                   loc[s].call, "sale"))
            /\ seq' = Bump(seq, "sales")
            /\ lastval' = IF variant = "pg" THEN seq["sales"] + 1 ELSE lastval
            /\ loc' = [loc EXCEPT ![s].row = seq["sales"] + 1]
            /\ Goto(s, "rs_update")
            /\ UNCHANGED result
    /\ UNCHANGED <<variant, shown, user, initial, runs>>

\* UPDATE products SET stock = stock - qty WHERE id = pid
RecordSaleUpdate(s) ==
    /\ pc[s] = "rs_update"
    /\ IF Poisoned
       THEN /\ FailedMidRun
            /\ EndRun(s, "error")
       ELSE /\ CanWrite(s)
            /\ Staged(s, AddToStock(View(s), loc[s].pid, 0 - loc[s].qty,
                                     loc[s].call, "decrement"))
            /\ Goto(s, "rs_commit")
            /\ UNCHANGED <<loc, result>>
    /\ UNCHANGED <<variant, shown, seq, lastval, user, initial, runs>>

\* conn.commit(); log_activity("Sold <qty> of <flavor>"); st.success; st.rerun()
RecordSaleCommit(s) ==
    /\ pc[s] = "rs_commit"
    /\ CanWrite(s)
    /\ Committed(WithLog(s, IF Poisoned THEN committed ELSE View(s), "Sold"))
    /\ seq' = LogSeq(s, seq)
    /\ lastval' = IF variant = "pg" THEN seq["activity_logs"] + 1 ELSE lastval
    /\ EndRun(s, "ok")
    /\ UNCHANGED <<variant, shown, user, initial, runs>>

\* -------------------------------------------------------------- read side
\* SELECT COALESCE(SUM(revenue), 0) FROM sales
total_revenue(db) == SumOf(db["sales"], "revenue")
\* SELECT COALESCE(SUM(amount), 0) FROM investments
total_investment(db) == SumOf(db["investments"], "amount")
\* cost of the stock that is on the shelf now: SUM(stock * cost_price) over products
cost_used_on_shelf(db) ==
    SumOf({[id |-> p.id, v |-> p.stock * p.cost_price] : p \in db["products"]}, "v")
\* SELECT COALESCE(SUM(batch_cost), 0) FROM stock_additions
cost_used(db) == SumOf(db["stock_additions"], "batch_cost")

\* FROM sales s JOIN products p ON s.product_id = p.id (the LEFT JOINs on
\* flavors and customers drop no row)
sales_joined(db) == {r \in db["sales"] : Has(db["products"], r.product_id)}
\* sales.groupby("month")["revenue"].sum(), added up over the months: each
\* joined row falls in exactly one month
monthly_revenue(db) == SumOf(sales_joined(db), "revenue")
\* cost.groupby("month")["batch_cost"].sum() over SELECT date, batch_cost FROM
\* stock_additions, added up over the months
monthly_cost(db) == SumOf(db["stock_additions"], "batch_cost")

\* A run of a page that only reads: create_tables() and its commit, then the
\* SELECTs and the figures the page renders.
Reads(s, page) ==
    /\ CanStart(s)
    /\ PageAllowed(s, page)
    /\ NothingWritten
    /\ UNCHANGED <<variant, seq, lastval, user, pc, loc, result, initial, runs>>

\* Dashboard: the five metrics (app.py shows a staff user the stock only)
Dashboard(s) ==
    /\ Reads(s, "Dashboard")
    /\ shown' = IF variant = "pg" /\ user[s].role # "admin"
                THEN [NoReport EXCEPT !.page = "Dashboard", !.info = "stock only"]
                ELSE [NoReport EXCEPT
                        !.page = "Dashboard",
                        !.total_revenue = total_revenue(Base),
                        !.cost_used = cost_used(Base),
                        !.total_investment = total_investment(Base),
                        !.remaining_investment = total_investment(Base) - cost_used(Base),
                        !.profit = total_revenue(Base) - cost_used(Base)]

\* Reports & Graphs: the joined sales, the empty check, the monthly rollup
Reports(s) ==
    /\ Reads(s, "Reports & Graphs")
    /\ shown' = IF sales_joined(Base) = {}
                THEN [NoReport EXCEPT !.page = "Reports & Graphs",
                                      !.info = "No sales recorded yet."]
                ELSE [NoReport EXCEPT
                        !.page = "Reports & Graphs",
                        !.monthly_revenue = monthly_revenue(Base),
                        !.monthly_cost = monthly_cost(Base),
                        !.monthly_profit = monthly_revenue(Base) - monthly_cost(Base)]

\* Financial Summary: revenue, cost used, profit
FinancialSummary(s) ==
    /\ Reads(s, "Financial Summary")
    /\ shown' = [NoReport EXCEPT
                   !.page = "Financial Summary",
                   !.total_revenue = total_revenue(Base),
                   !.cost_used = cost_used(Base),
                   !.profit = total_revenue(Base) - cost_used(Base)]

\* Admin Activity: the activity log, after the page's own role check
AdminActivity(s) ==
    /\ Reads(s, "Admin Activity")
    /\ shown' = IF user[s].role # "admin"
                THEN [NoReport EXCEPT !.page = "Admin Activity", !.info = "Admins only"]
                ELSE [NoReport EXCEPT !.page = "Admin Activity", !.info = "logs"]

\* ------------------------------------------------------------------- Next
\* ids a row can have been given: the seeded one and one per writing run
MaxId == MaxRuns + 1

Next ==
    \E s \in Sessions :
        \/ FirstRun(s)
        \/ \E u \in Usernames, p \in Passwords : Login(s, u, p)
        \/ \E u \in Usernames, p \in Passwords : Register(s, u, p)
        \/ Logout(s)
        \/ \E raw \in NameInputs : AddFlavor(s, raw)
        \/ \E fid \in 1 .. MaxId : DeleteFlavor(s, fid)
        \/ \E fid \in 1 .. MaxId, raw \in NameInputs : UpdateFlavor(s, fid, raw)
        \/ \E fid \in 1 .. MaxId, pr \in PriceInputs, st \in RawQty :
              AddProduct(s, fid, pr[1], pr[2], st)
        \/ \E pid \in 1 .. MaxId : DeleteProduct(s, pid)
        \/ \E pid \in 1 .. MaxId, fid \in 1 .. MaxId, pr \in PriceInputs,
              st \in RawQty : UpdateProduct(s, pid, fid, pr[1], pr[2], st)
        \/ \E amt \in AmountInputs : AddInvestment(s, amt)
        \/ \E raw \in NameInputs : AddCustomer(s, raw)
        \/ \E cid \in 1 .. MaxId, raw \in NameInputs : UpdateCustomer(s, cid, raw)
        \/ \E cid \in 1 .. MaxId : DeleteCustomer(s, cid)
        \/ \E pid \in 1 .. MaxId, raw \in RawQty : AddStockLoad(s, pid, raw)
        \/ AddStockInsert(s)
        \/ AddStockUpdate(s)
        \/ AddStockCommit(s)
        \/ \E pid \in 1 .. MaxId, cust \in 0 .. MaxId, rawname \in NameInputs,
              raw \in RawQty : RecordSaleLoad(s, pid, cust, rawname, raw)
        \/ RecordSaleCustomer(s)
        \/ RecordSaleLastval(s)
        \/ RecordSaleInsert(s)
        \/ RecordSaleUpdate(s)
        \/ RecordSaleCommit(s)
        \/ Dashboard(s)
        \/ Reports(s)
        \/ FinancialSummary(s)
        \/ AdminActivity(s)

Spec == Init /\ [][Next]_vars

\* Sessions that log in and record sales, and do nothing else.
NextSales ==
    \E s \in Sessions :
        \/ \E u \in Usernames, p \in Passwords : Login(s, u, p)
        \/ \E pid \in 1 .. MaxId, cust \in 0 .. MaxId, rawname \in NameInputs,
              raw \in RawQty : RecordSaleLoad(s, pid, cust, rawname, raw)
        \/ RecordSaleCustomer(s)
        \/ RecordSaleLastval(s)
        \/ RecordSaleInsert(s)
        \/ RecordSaleUpdate(s)
        \/ RecordSaleCommit(s)

SpecSales == Init /\ [][NextSales]_vars

\* Sessions that register, log in and out, reconnect and look at the Dashboard.
NextSession ==
    \E s \in Sessions :
        \/ FirstRun(s)
        \/ \E u \in Usernames, p \in Passwords : Login(s, u, p)
        \/ \E u \in Usernames, p \in Passwords : Register(s, u, p)
        \/ Logout(s)
        \/ Reconnect(s)
        \/ Dashboard(s)

SpecSession == Init /\ [][NextSession]_vars

\* ================================================================= claims
ProductIds == {p.id : p \in committed["products"]}
QtyOf(rows, pid) == SumOf({r \in rows : r.product_id = pid}, "quantity")

\* C1: every product's stock equals the stock it was created with, plus the
\* quantities of its stock additions, minus the quantities of its sales.
StockLedgerIdentity ==
    \A p \in committed["products"] :
        p.stock = initial[p.id] + QtyOf(committed["stock_additions"], p.id)
                                - QtyOf(committed["sales"], p.id)

\* C2: no product ever has a negative stock.
StockNeverNegative ==
    \A p \in committed["products"] : p.stock >= 0

\* C3: the stock check and the decrement of a sale act as one step: the
\* decrement of a recorded sale never takes the product's stock below zero.
SaleDecrementNeverBelowZero ==
    [][\A s \in Sessions :
          (pc[s] = "rs_update" /\ pc'[s] = "rs_commit") =>
              \A p \in View(s)'["products"] : p.id = loc[s].pid => p.stock >= 0]_vars

\* a RecordSale run that has passed its checks and not yet decremented
SalePcs == {"rs_cust", "rs_lastval", "rs_sale", "rs_update"}
StockNow(s) == Row(View(s)["products"], loc[s].pid).stock
SaleTables(db) == <<{<<p.id, p.stock>> : p \in db["products"]}, db["sales"],
                    db["customers"]>>

\* C4: a RecordSale whose quantity exceeds the product's current stock changes
\* neither the stock, nor the sales table, nor the customers table.
OversellChangesNothing ==
    [][\A s \in Sessions :
          (/\ pc[s] \in SalePcs
           /\ pc'[s] # pc[s]
           /\ Has(View(s)["products"], loc[s].pid)
           /\ loc[s].qty > StockNow(s)) =>
              /\ SaleTables(work') = SaleTables(work)
              /\ SaleTables(committed') = SaleTables(committed)]_vars

\* C5: in every committed state the customer insert/update, the sale row and
\* the stock decrement of a RecordSale call are all present or all absent.
RecordSaleAllOrNothing ==
    \A e \in committed["effects"] :
        e.eff \in {"customer", "sale", "decrement"} =>
            EffectsOf(committed, e.id) = {"customer", "sale", "decrement"}

\* C6: in every committed state the stock_additions row of an AddStock call
\* and its stock increment are both present or both absent.
AddStockSingleTransaction ==
    \A e \in committed["effects"] :
        e.eff \in {"addition", "increment"} =>
            EffectsOf(committed, e.id) = {"addition", "increment"}

\* C7: an AddStock with a quantity <= 0 is turned down and mutates nothing:
\* no statement is issued (no stock_additions row, no stock change, no activity
\* log row), the committed database gains nothing that was not already pending
\* on the connection, and the run goes no further.
AddStockInvalidQuantityNoMutation ==
    [][\A s \in Sessions, pid \in 1 .. MaxId, raw \in RawQty :
          (raw <= 0 /\ AddStockLoad(s, pid, raw)) =>
              /\ work' = work
              /\ committed' \in {committed, work}
              /\ pc'[s] = "idle"
              /\ result' = "Add Stock: quantity rejected"]_vars

\* C7 witness: an AddStock with a quantity <= 0 was submitted and turned down.
AddStockQuantityRejected ==
    /\ result = "Add Stock: quantity rejected"
    /\ committed["products"] # {}

\* C8: when an AddStock call commits, the batch_cost of its row is its quantity
\* times the cost_price the product has at that moment.
BatchCostIsCurrentCost ==
    [][\A s \in Sessions :
          (pc[s] = "as_commit" /\ pc'[s] = "idle") =>
              \A r \in committed'["stock_additions"], p \in committed'["products"] :
                  (r.id = loc[s].row /\ p.id = r.product_id) =>
                      r.batch_cost = r.quantity * p.cost_price]_vars

\* C9: when a RecordSale call commits, the revenue of its row is its quantity
\* times the selling_price the product has at that moment.
RevenueIsCurrentPrice ==
    [][\A s \in Sessions :
          (pc[s] = "rs_commit" /\ pc'[s] = "idle") =>
              \A r \in committed'["sales"], p \in committed'["products"] :
                  (r.id = loc[s].row /\ p.id = r.product_id) =>
                      r.revenue = r.quantity * p.selling_price]_vars

HistoryTables == {"stock_additions", "sales", "investments", "activity_logs"}

\* C10: a committed stock_additions, sales, investments or activity_logs row
\* is never modified or removed by any later step.
HistoryAppendOnly ==
    [][\A t \in HistoryTables : committed[t] \subseteq committed'[t]]_vars

\* C10 witness: a product was deleted and the sale or stock addition that
\* refers to it is still there.
HistoryRowOutlivesDelete ==
    \E r \in committed["stock_additions"] \cup committed["sales"] :
        /\ ~Has(committed["products"], r.product_id)
        /\ \A s \in Sessions : pc[s] = "idle"

\* C11: the profit a Dashboard or Financial Summary run reports is the sum of
\* revenue over all sales minus the sum of batch_cost over all stock additions,
\* and the remaining investment the Dashboard reports is the sum of amount over
\* all investments minus that same cost.
ReportedProfitIdentity ==
    [][\A s \in Sessions :
          ((Dashboard(s) \/ FinancialSummary(s)) /\ shown'.info = "") =>
              /\ shown'.profit = SumOf(committed'["sales"], "revenue")
                                 - SumOf(committed'["stock_additions"], "batch_cost")
              /\ shown'.page = "Dashboard" =>
                    shown'.remaining_investment =
                        SumOf(committed'["investments"], "amount")
                        - SumOf(committed'["stock_additions"], "batch_cost")]_vars

\* C11 witness: the Dashboard reported its figures over a ledger with a sale
\* and a stock addition in it.
DashboardReportedSaleAndBatch ==
    /\ shown.page = "Dashboard"
    /\ shown.total_revenue > 0
    /\ shown.cost_used > 0

\* C12: the revenue of the monthly rollup of a Reports run, added up over its
\* months, is the sum of revenue over all sales.
MonthlyRevenueIsTotalRevenue ==
    [][\A s \in Sessions :
          Reports(s) => shown'.monthly_revenue = SumOf(committed'["sales"], "revenue")]_vars

\* the step in which a mutating ledger operation of session s completes
LedgerOperation(s) ==
    \/ \E raw \in NameInputs : AddFlavor(s, raw)
    \/ \E fid \in 1 .. MaxId : DeleteFlavor(s, fid)
    \/ \E fid \in 1 .. MaxId, raw \in NameInputs : UpdateFlavor(s, fid, raw)
    \/ \E fid \in 1 .. MaxId, pr \in PriceInputs, st \in RawQty :
          AddProduct(s, fid, pr[1], pr[2], st)
    \/ \E pid \in 1 .. MaxId : DeleteProduct(s, pid)
    \/ \E pid \in 1 .. MaxId, fid \in 1 .. MaxId, pr \in PriceInputs, st \in RawQty :
          UpdateProduct(s, pid, fid, pr[1], pr[2], st)
    \/ \E amt \in AmountInputs : AddInvestment(s, amt)
    \/ \E raw \in NameInputs : AddCustomer(s, raw)
    \/ \E cid \in 1 .. MaxId, raw \in NameInputs : UpdateCustomer(s, cid, raw)
    \/ \E cid \in 1 .. MaxId : DeleteCustomer(s, cid)
    \/ AddStockCommit(s)
    \/ RecordSaleCommit(s)

\* C13: every mutating ledger operation that an authenticated actor completes
\* adds exactly one activity_logs row, and that row carries the actor's username.
EveryMutationLoggedOnce ==
    [][\A s \in Sessions :
          (LedgerOperation(s) /\ result' = "ok") =>
              LET new == committed'["activity_logs"] \ committed["activity_logs"]
              IN /\ Cardinality(new) = 1
                 /\ \A r \in new : r.username = user[s].username]_vars

\* a run of session s of a handler that writes flavors, products or
\* investments; it went through when it reports "ok" or has got to its INSERT
AdminWrite(s) ==
    \/ \E raw \in NameInputs : AddFlavor(s, raw)
    \/ \E fid \in 1 .. MaxId : DeleteFlavor(s, fid)
    \/ \E fid \in 1 .. MaxId, raw \in NameInputs : UpdateFlavor(s, fid, raw)
    \/ \E fid \in 1 .. MaxId, pr \in PriceInputs, st \in RawQty :
          AddProduct(s, fid, pr[1], pr[2], st)
    \/ \E pid \in 1 .. MaxId : DeleteProduct(s, pid)
    \/ \E pid \in 1 .. MaxId, fid \in 1 .. MaxId, pr \in PriceInputs, st \in RawQty :
          UpdateProduct(s, pid, fid, pr[1], pr[2], st)
    \/ \E pid \in 1 .. MaxId, raw \in RawQty : AddStockLoad(s, pid, raw)
    \/ \E amt \in AmountInputs : AddInvestment(s, amt)

\* C14: while only staff users are logged in, no step writes flavors, products
\* or investments from their pages, none shows the activity log, and the
\* Dashboard shows the stock count only.
StaffConfinedToStaffPages ==
    [][(\A s \in Sessions : user[s].role # "admin") =>
          /\ \A s \in Sessions :
                ~(AdminWrite(s) /\ (result' = "ok" \/ pc'[s] = "as_insert"))
          /\ \A s \in Sessions : AdminActivity(s) => shown'.info # "logs"
          /\ \A s \in Sessions : Dashboard(s) => shown'.info = "stock only"]_vars

\* C15: a step in which a session presses Logout leaves that session without
\* an authenticated identity.
LogoutClearsIdentity ==
    [][\A s \in Sessions : Logout(s) => user'[s] = NoUser]_vars

\* what a run reports when its operation failed
ErrorResults == {"error", "Flavor already exists", "Enter flavor name",
                 "Name is required", "Not enough stock.", "Customer name is required.",
                 "Selected product is out of stock.", "Add Stock: quantity rejected",
                 "Record Sale: quantity rejected"}

\* C16: a call that reports an error has persisted nothing: a one-statement
\* handler that fails leaves the pending store as it was, and a Record Sale or
\* Add Stock call that ends in an error has none of its effects in the
\* committed store.
RejectedCallPersistsNothing ==
    [][/\ ((\A s \in Sessions : pc'[s] = pc[s]) /\ result' \in ErrorResults) =>
              work' = work
       /\ \A s \in Sessions :
              (pc[s] # "idle" /\ pc'[s] = "idle" /\ result' \in ErrorResults) =>
                  EffectsOf(committed', loc[s].call) = {}]_vars

\* C17: the flavor_id of every product names a flavor that exists.
ProductFlavorExists ==
    \A p \in committed["products"] : Has(committed["flavors"], p.flavor_id)

FlavorNamesDistinct ==
    \A f, g \in committed["flavors"] : f.flavor_name = g.flavor_name => f.id = g.id

CustomerNameNotBlank ==
    \A c \in committed["customers"] : c.name # ""

\* C20: every product has cost_price >= 0 and selling_price >= 0.
PricesNeverNegative ==
    \A p \in committed["products"] : p.cost_price >= 0 /\ p.selling_price >= 0

\* C21: a Login with (username, password) gives the session the id, username
\* and role of the stored user when a user with that username is stored whose
\* hash is the hash of that password, and in every other case reports invalid
\* credentials and leaves the session unauthenticated.
LoginReturnsStoredIdentity ==
    [][\A s \in Sessions, u \in Usernames, p \in Passwords :
          Login(s, u, p) =>
              LET match == {r \in committed'["users"] :
                              r.username = u /\ r.password_hash = hash_password(p)}
              IN IF match # {}
                 THEN \E r \in match :
                         user'[s] = [id |-> r.id, username |-> r.username, role |-> r.role]
                 ELSE /\ user'[s] = NoUser
                      /\ result' = "Invalid credentials"]_vars

\* C21 witness: one session is logged in and a login was refused.
LoginAcceptedAndRefused ==
    /\ result = "Invalid credentials"
    /\ \E s \in Sessions : user[s] # NoUser

UsernamesDistinct ==
    \A a, b \in committed["users"] : a.username = b.username => a.id = b.id

\* C22: usernames stay unique, and a Register with (username, password)
\* reports a password of fewer than 4 characters as too short and a taken
\* username as already existing, leaving the users as they were, and otherwise
\* adds one user with that username, the hash of that password and role staff.
RegistrationCreatesStaffOrFails ==
    /\ []UsernamesDistinct
    /\ [][\A s \in Sessions, u \in Usernames, p \in Passwords :
             Register(s, u, p) =>
                 IF Len(p) < 4
                 THEN /\ committed'["users"] = committed["users"]
                      /\ result' = "Password too short"
                 ELSE IF \E r \in committed["users"] : r.username = u
                 THEN /\ committed'["users"] = committed["users"]
                      /\ result' = "Username already exists"
                 ELSE \E r \in committed'["users"] :
                         /\ committed'["users"] = committed["users"] \cup {r}
                         /\ r \notin committed["users"]
                         /\ r.username = u
                         /\ r.role = "staff"
                         /\ r.password_hash = hash_password(p)]_vars

\* C22 witness: a staff user was registered and a registration under a taken
\* username was turned down.
RegisteredAndDuplicateRefused ==
    /\ result = "Username already exists"
    /\ \E r \in committed["users"] : r.role = "staff"

\* C23: a session that reconnects is the user it was before.
IdentitySurvivesReconnect ==
    [][\A s \in Sessions : Reconnect(s) => user'[s] = user[s]]_vars

\* C24: a Reports run, with no operation under way, over a ledger with a sale
\* or a stock addition shows the
\* monthly rollup, with revenue the sum of the sale revenue, cost the sum of
\* batch_cost and profit their difference (the rows of the model fall in one
\* calendar month, so the rollup has one row and a missing series counts 0).
MonthlyRollupIsFullOuterJoin ==
    [][\A s \in Sessions :
          /\ Reports(s)
          /\ \A x \in Sessions : pc[x] = "idle"
          /\ committed'["sales"] \cup committed'["stock_additions"] # {}
          =>  /\ shown'.info = ""
              /\ shown'.monthly_revenue = SumOf(committed'["sales"], "revenue")
              /\ shown'.monthly_cost = SumOf(committed'["stock_additions"], "batch_cost")
              /\ shown'.monthly_profit = shown'.monthly_revenue - shown'.monthly_cost]_vars

\* C25: a delete of a product, of a customer or of a flavor that history rows
\* refer to removes the entity row and leaves every history row in place.
DeleteOfReferencedEntitySucceeds ==
    [][\A s \in Sessions, i \in 1 .. MaxId :
          LET history == committed["stock_additions"] \cup committed["sales"]
              kept    == \A t \in HistoryTables : committed[t] \subseteq committed'[t]
          IN /\ DeleteProduct(s, i) /\ (\E r \in history : r.product_id = i)
                => ~Has(committed'["products"], i) /\ kept
             /\ DeleteCustomer(s, i) /\ (\E r \in committed["sales"] : r.customer_id = i)
                => ~Has(committed'["customers"], i) /\ kept
             /\ DeleteFlavor(s, i)
                /\ (\E r \in history, p \in committed["products"] :
                        r.product_id = p.id /\ p.flavor_id = i)
                => ~Has(committed'["flavors"], i) /\ kept]_vars

\* C26: the sale row that a RecordSale with the new-customer sentinel inserts
\* carries the id of the customers row that this call inserted.
NewCustomerSaleUsesCreatedId ==
    [][\A s \in Sessions :
          RecordSaleInsert(s) /\ loc[s].cust = AddNew /\ pc'[s] = "rs_update" =>
              \E r \in work'["sales"] :
                  r.id = loc'[s].row /\ r.customer_id = loc[s].row]_vars

\* C27: on PostgreSQL no rejected statement leaves the shared connection in a
\* failed transaction, in which the first statement of every later run of
\* every session (create_tables) and every statement of a run under way is
\* refused.
RejectedStatementNeverPoisons == variant = "pg" => ~aborted

\* C28: when a RecordSale or an AddStock call commits, the product its row
\* refers to is a row of the committed products table.
CommittedRowRefersToProduct ==
    [][\A s \in Sessions :
          /\ (pc[s] = "rs_commit" /\ pc'[s] = "idle") =>
                \A r \in committed'["sales"] :
                    r.id = loc[s].row => Has(committed'["products"], r.product_id)
          /\ (pc[s] = "as_commit" /\ pc'[s] = "idle") =>
                \A r \in committed'["stock_additions"] :
                    r.id = loc[s].row => Has(committed'["products"], r.product_id)]_vars

Admins == {r \in committed["users"] : r.role = "admin"}

\* C29: at most one admin account exists; no step changes or removes a users
\* row; a users row with role admin is created only by the first run on an
\* empty users table, and every row a registration creates has role staff.
RolesFixedAndOneAdmin ==
    /\ [](Cardinality(Admins) <= 1)
    /\ [][/\ committed["users"] \subseteq committed'["users"]
          /\ \A r \in committed'["users"] \ committed["users"] :
                r.role = "admin" =>
                    /\ committed["users"] = {}
                    /\ \E s \in Sessions : FirstRun(s)
          /\ \A s \in Sessions, u \in Usernames, p \in Passwords :
                Register(s, u, p) =>
                    \A r \in committed'["users"] \ committed["users"] :
                        r.role = "staff"]_vars

\* C29 witness: the bootstrap created the admin and a registration created a
\* staff account.
BootstrapAdminAndRegisteredStaff ==
    /\ initial = <<>>
    /\ Admins # {}
    /\ \E r \in committed["users"] : r.role = "staff"

\* C30: no step lowers the sum of batch_cost over the committed stock
\* additions.
CostUsedNeverDecreases ==
    [][SumOf(committed'["stock_additions"], "batch_cost")
          >= SumOf(committed["stock_additions"], "batch_cost")]_vars

====
